---- MODULE Spec2Model ----
(***************************************************************************)
(* MSL MessageOutputStream (JavaScript): the header transmission started   *)
(* by the constructor, the buffered write/flush/close protocol that turns  *)
(* application bytes into sequence-numbered payload chunks, and the        *)
(* abort / timed-out / errored flags.  The destination output stream, the  *)
(* readiness BlockingQueue and PayloadChunk$create answer through          *)
(* callbacks; every callback is one action of the model.                   *)
(***************************************************************************)
EXTENDS Integers, Sequences, FiniteSets, TLC

(* ------------------------------ bounds --------------------------------- *)
\* invocations of the stream's methods per stream
MaxCalls == 4
\* X509 certificate objects at hand
MaxCerts == 4
\* calls of addKeyExchangeFactory per MockMslContext
MaxAdds == 2

(* ------------------------------ values --------------------------------- *)
NoAlgo == "null"
LZW == "LZW"
GZIP == "GZIP"
NoError == "null"
MessageId == 17

\* callback outcomes: result(true) / result(false) / result(n) / timeout() /
\* error(e); "pending" while no callback has been invoked
ResTrue == [k |-> "true", n |-> 0, e |-> ""]
ResFalse == [k |-> "false", n |-> 0, e |-> ""]
ResCount(n) == [k |-> "count", n |-> n, e |-> ""]
TimeoutCb == [k |-> "timeout", n |-> 0, e |-> ""]
ErrorCb(e) == [k |-> "error", n |-> 0, e |-> e]
Pending == [k |-> "pending", n |-> 0, e |-> ""]
Proceed == [k |-> "proceed", n |-> 0, e |-> ""]
ResBool(b) == IF b THEN ResTrue ELSE ResFalse
\* the constructor's result(stream)
ResStream == [k |-> "stream", n |-> 0, e |-> ""]

ClosedError == "MslIoException: Message output stream already closed."
OffsetError == "RangeError: Offset cannot be negative."
LengthError == "RangeError: Length cannot be negative."
BoundsError == "RangeError: Offset plus length cannot be greater than the array length."
ErrorMessageError == "MslInternalException: Cannot write payload data for an error message."
HandshakeError == "MslInternalException: Cannot write payload data for a handshake message."
FlushAbortedError == "MslIoException: flush() aborted"
EncodingError == "MslIoException: Error encoding payload chunk"
SinkError == "IOException: destination"

\* the byte arrays handed to write()
TwoBytes == <<7, 8>>
TenBytes == <<0, 1, 2, 3, 4, 5, 6, 7, 8, 9>>
WriteInputs ==
    { [data |-> TwoBytes, off |-> 0, len |-> 0],
      [data |-> TwoBytes, off |-> 1, len |-> 1],
      [data |-> TenBytes, off |-> 0, len |-> 10],
      [data |-> TwoBytes, off |-> 1, len |-> 2] }

Algos == {NoAlgo, LZW, GZIP}

\* message capabilities: null, or the set of compression algorithms
NullCaps == [null |-> TRUE, compressionAlgorithms |-> {}]
Caps(s) == [null |-> FALSE, compressionAlgorithms |-> s]

\* MessageHeader (data-bearing or handshake) or ErrorHeader
MessageHeader(handshake, caps) ==
    [type |-> "MessageHeader", handshake |-> handshake, messageId |-> MessageId,
     messageCapabilities |-> caps]
ErrorHeader ==
    [type |-> "ErrorHeader", handshake |-> FALSE, messageId |-> MessageId,
     messageCapabilities |-> NullCaps]

\* constructor arguments: ctx.getMessageCapabilities() and the header
Configs ==
    { [local |-> Caps({GZIP, LZW}), header |-> MessageHeader(FALSE, Caps({LZW}))],
      [local |-> Caps({GZIP, LZW}), header |-> MessageHeader(FALSE, NullCaps)],
      [local |-> Caps({LZW}), header |-> MessageHeader(TRUE, Caps({LZW}))],
      [local |-> Caps({GZIP, LZW}), header |-> ErrorHeader] }

(* -------------------- entity authentication data ----------------------- *)
\* JavaScript values the authentication data holds: null, undefined, strings
\* (str: the text; bytes: the characters of a Base64 text) and X509
\* certificate objects (ref: the object's identity; bytes: its encoding)
JsNull == [t |-> "null", ref |-> 0, str |-> "", bytes |-> <<>>]
JsUndefined == [t |-> "undefined", ref |-> 0, str |-> "", bytes |-> <<>>]
JsString(s) == [t |-> "string", ref |-> 0, str |-> s, bytes |-> <<>>]
X509(ref, bytes) == [t |-> "X509", ref |-> ref, str |-> "", bytes |-> bytes]

\* if (v): null, undefined and the empty string are false
Truthy(v) == v.t = "X509" \/ (v.t = "string" /\ (v.str # "" \/ v.bytes # <<>>))

\* a === b: objects by reference, strings by content
StrictEquals(a, b) ==
    /\ a.t = b.t
    /\ a.t = "string" => (a.str = b.str /\ a.bytes = b.bytes)
    /\ a.t = "X509" => a.ref = b.ref

\* a == b: as ===, and null == undefined
LooseEquals(a, b) ==
    \/ StrictEquals(a, b)
    \/ {a.t, b.t} \subseteq {"null", "undefined"}

\* x509cert.getSubjectString(): the subject named in the certificate's first
\* byte; certificates with different bytes can name the same subject
getSubjectString(x509cert) ==
    JsString(IF x509cert.bytes[1] = 1 THEN "CN=1" ELSE "CN=2")

\* CryptoJS.enc.Base64.stringify(CryptoJS.enc.Hex.parse(x509cert.hex))
Base64Stringify(bytes) ==
    [t |-> "string", ref |-> 0, str |-> "",
     bytes |-> [i \in 1..Len(bytes) |-> bytes[i] + 64]]

\* the text is the Base64 encoding of a certificate
IsCertB64(certB64) ==
    /\ certB64.t = "string" /\ certB64.str = "" /\ certB64.bytes # <<>>
    /\ \A i \in 1..Len(certB64.bytes) : certB64.bytes[i] \in 65..90

\* new X509() followed by readCertPEM(certB64): a new certificate object
readCertPEM(ref, certB64) ==
    X509(ref, [i \in 1..Len(certB64.bytes) |-> certB64.bytes[i] - 64])

X509Scheme == "X509"
PskScheme == "PSK"

\* an authentication data object: cls is its class (the X509 class taking
\* identity, certificate and chain; the X509 class taking a certificate; the
\* preshared keys class), ref its identity as an object
AuthData(cls, ref, scheme, identity, x509cert, x509chain) ==
    [t |-> "authdata", cls |-> cls, ref |-> ref, scheme |-> scheme,
     identity |-> identity, x509cert |-> x509cert, x509chain |-> x509chain]
NoInstance == AuthData("none", 0, "", JsUndefined, JsUndefined, JsUndefined)

\* a JSON object: the keys of the authentication data; undefined if absent
JsonObject(x509certificate, x509chain, identity) ==
    [x509certificate |-> x509certificate, x509chain |-> x509chain,
     identity |-> identity]
NoJson == JsonObject(JsUndefined, JsUndefined, JsUndefined)

JsonParseError == "MslEncodingException: JSON_PARSE_ERROR"
X509CertParseError == "MslCryptoException: X509CERT_PARSE_ERROR"
TypeError == "TypeError"

\* what a parse function answers: an instance or an exception
Parsed(v) == [k |-> "instance", e |-> "", v |-> v]
Thrown(e) == [k |-> "thrown", e |-> e, v |-> NoInstance]
NotParsed == [k |-> "none", e |-> "", v |-> NoInstance]

\* this === that for two values of any kind
SameObject(this, that) == that.t = "authdata" /\ this.ref = that.ref
\* that instanceof cls
InstanceOf(that, cls) == that.t = "authdata" /\ that.cls = cls
\* EntityAuthenticationData.equals: the schemes are the same
BaseEquals(this, that) == this.scheme = that.scheme
EqualsResult(b) == IF b THEN "true" ELSE "false"

\* ---- X509AuthenticationData(identity, x509cert, x509chain) ----
X509AuthenticationDataTrustsIdentity(ref, identity, x509cert, x509chain) ==
    AuthData("X509", ref, X509Scheme, identity, x509cert, x509chain)

X509AuthenticationData(ref, identity, x509cert, x509chain) ==
    AuthData("X509", ref, X509Scheme,
             IF Truthy(x509cert) THEN getSubjectString(x509cert) ELSE identity,
             x509cert, x509chain)

X509GetAuthData(this) ==
    IF Truthy(this.x509cert)
    THEN JsonObject(Base64Stringify(this.x509cert.bytes), JsUndefined, this.identity)
    ELSE IF Truthy(this.x509chain)
         THEN JsonObject(JsUndefined, this.x509chain, this.identity)
         ELSE JsonObject(JsUndefined, JsUndefined, this.identity)

\* equals without the instanceof test: that.identity of null raises
X509EqualsUnguarded(this, that) ==
    IF SameObject(this, that) THEN "true"
    ELSE IF that.t = "null" THEN TypeError
    ELSE IF that.t # "authdata" THEN "false"
    ELSE EqualsResult(/\ BaseEquals(this, that)
                      /\ StrictEquals(this.identity, that.identity)
                      /\ StrictEquals(this.x509cert, that.x509cert)
                      /\ StrictEquals(this.x509chain, that.x509chain))

X509Equals(this, that) ==
    IF SameObject(this, that) THEN "true"
    ELSE IF ~InstanceOf(that, "X509") THEN "false"
    ELSE EqualsResult(/\ BaseEquals(this, that)
                      /\ StrictEquals(this.identity, that.identity)
                      /\ StrictEquals(this.x509cert, that.x509cert)
                      /\ StrictEquals(this.x509chain, that.x509chain))

\* a parse that asks for no key
X509AuthenticationDataParseLenient(ref, x509AuthJO) ==
    IF IsCertB64(x509AuthJO.x509certificate)
    THEN Parsed(X509AuthenticationData(ref + 1, JsNull,
                    readCertPEM(ref, x509AuthJO.x509certificate), JsNull))
    ELSE Parsed(X509AuthenticationData(ref + 1, x509AuthJO.identity, JsNull,
                                       x509AuthJO.x509chain))

\* ref, ref + 1: the objects the parse allocates
X509AuthenticationDataParse(ref, x509AuthJO) ==
    IF Truthy(x509AuthJO.x509certificate)
    THEN IF IsCertB64(x509AuthJO.x509certificate)
         THEN Parsed(X509AuthenticationData(ref + 1, JsNull,
                         readCertPEM(ref, x509AuthJO.x509certificate), JsNull))
         ELSE Thrown(X509CertParseError)
    ELSE IF Truthy(x509AuthJO.x509chain)
         THEN Parsed(X509AuthenticationData(ref + 1, x509AuthJO.identity, JsNull,
                                            x509AuthJO.x509chain))
         ELSE Thrown(JsonParseError)

\* ---- X509AuthenticationData(x509cert) ----
X509CertAuthenticationData(ref, x509cert) ==
    AuthData("X509Cert", ref, X509Scheme, getSubjectString(x509cert),
             x509cert, JsUndefined)

X509CertGetAuthData(this) ==
    JsonObject(Base64Stringify(this.x509cert.bytes), JsUndefined, JsUndefined)

X509CertEquals(this, that) ==
    IF SameObject(this, that) THEN "true"
    ELSE IF ~InstanceOf(that, "X509Cert") THEN "false"
    ELSE EqualsResult(BaseEquals(this, that) /\ LooseEquals(this.identity, that.identity))

X509CertAuthenticationDataParse(ref, x509AuthJO) ==
    IF x509AuthJO.x509certificate.t # "string" THEN Thrown(JsonParseError)
    ELSE IF ~IsCertB64(x509AuthJO.x509certificate) THEN Thrown(X509CertParseError)
    ELSE Parsed(X509CertAuthenticationData(ref + 1,
                    readCertPEM(ref, x509AuthJO.x509certificate)))

\* ---- PresharedAuthenticationData(identity) ----
PresharedAuthenticationData(ref, identity) ==
    AuthData("Preshared", ref, PskScheme, identity, JsUndefined, JsUndefined)

PresharedGetAuthData(this) ==
    JsonObject(JsUndefined, JsUndefined, this.identity)

PresharedEquals(this, that) ==
    IF SameObject(this, that) THEN "true"
    ELSE IF ~InstanceOf(that, "Preshared") THEN "false"
    ELSE EqualsResult(BaseEquals(this, that) /\ LooseEquals(this.identity, that.identity))

PresharedAuthenticationDataParse(ref, presharedAuthJO) ==
    IF presharedAuthJO.identity.t # "string" THEN Thrown(JsonParseError)
    ELSE Parsed(PresharedAuthenticationData(ref + 1, presharedAuthJO.identity))

\* ---- dispatch on the class of an instance ----
Classes == {"X509", "X509Cert", "Preshared"}

New(cls, ref, args) ==
    CASE cls = "X509" -> X509AuthenticationData(ref, args.identity, args.x509cert, args.x509chain)
      [] cls = "X509Cert" -> X509CertAuthenticationData(ref, args.x509cert)
      [] cls = "Preshared" -> PresharedAuthenticationData(ref, args.identity)

GetAuthData(this) ==
    CASE this.cls = "X509" -> X509GetAuthData(this)
      [] this.cls = "X509Cert" -> X509CertGetAuthData(this)
      [] this.cls = "Preshared" -> PresharedGetAuthData(this)

Parse(cls, ref, jo) ==
    CASE cls = "X509" -> X509AuthenticationDataParse(ref, jo)
      [] cls = "X509Cert" -> X509CertAuthenticationDataParse(ref, jo)
      [] cls = "Preshared" -> PresharedAuthenticationDataParse(ref, jo)

Equals(this, that) ==
    CASE this.cls = "X509" -> X509Equals(this, that)
      [] this.cls = "X509Cert" -> X509CertEquals(this, that)
      [] this.cls = "Preshared" -> PresharedEquals(this, that)
      [] OTHER -> "false"

\* ---- the instances examined ----
\* certificate i: certificates 1 and 2 are two objects of the same bytes,
\* certificate 4 has other bytes and the subject of 1 and 2, certificate 3
\* has another subject
Cert(i) == X509(i, <<IF i % 3 = 0 THEN 2 ELSE 1, (i + 1) \div 2>>)
Certs == { Cert(i) : i \in 1..MaxCerts }
Identities == { JsString("CN=1"), JsString("CN=1A"), JsString("CN=1B") }
Chains == { JsNull, JsString("chain") }

\* constructor arguments of a class
Args(identity, x509cert, x509chain) ==
    [identity |-> identity, x509cert |-> x509cert, x509chain |-> x509chain]
ArgsOf(cls) ==
    CASE cls = "X509" ->
           { Args(i, c, ch) : i \in Identities, c \in Certs \cup {JsNull}, ch \in Chains }
      [] cls = "X509Cert" ->
           { Args(JsUndefined, c, JsUndefined) : c \in Certs }
      [] cls = "Preshared" ->
           { Args(i, JsUndefined, JsUndefined) : i \in Identities }

NoEquals ==
    [aa |-> "", ab |-> "", ba |-> "", ap |-> "", pa |-> "",
     null |-> "", string |-> "", other |-> "", rehto |-> ""]

\* no entity authentication data under examination
NoAuth ==
    [pc |-> "none", cls |-> "none", args |-> Args(JsUndefined, JsUndefined, JsUndefined),
     args2 |-> Args(JsUndefined, JsUndefined, JsUndefined),
     a |-> NoInstance, b |-> NoInstance, jo |-> NoJson, parsed |-> NotParsed,
     jo2 |-> NoJson, eq |-> NoEquals, next |-> 0]

(* --------------------------- MockMslContext ---------------------------- *)
\* key exchange schemes; a scheme is one object, compared by reference
KeyExchangeSchemes == {"ASYMMETRIC_WRAPPED", "SYMMETRIC_WRAPPED", "DIFFIE_HELLMAN"}
\* a key exchange factory: id tells the factory objects apart
KeyExchangeFactory(id, scheme) == [id |-> id, scheme |-> scheme]
UndefinedFactory == KeyExchangeFactory(0, "undefined")

\* the factories the constructor pushes
InitialKeyxFactories ==
    << KeyExchangeFactory(1, "ASYMMETRIC_WRAPPED"),
       KeyExchangeFactory(2, "SYMMETRIC_WRAPPED"),
       KeyExchangeFactory(3, "DIFFIE_HELLMAN") >>

\* array.splice(i, 1), i counted from 0
Splice(fs, i) == SubSeq(fs, 1, i) \o SubSeq(fs, i + 2, Len(fs))

\* a loop index that is not taken back after a removal
IndexAfterNoDecrement(i, removed) == i + 1

\* the index of the next iteration: --i after a removal, then ++i
IndexAfter(i, removed) == IF removed THEN (i - 1) + 1 ELSE i + 1

\* the loop of removeKeyExchangeFactories from index i on
RECURSIVE RemoveKeyExchangeFactoriesLoop(_, _, _)
RemoveKeyExchangeFactoriesLoop(fs, i, scheme) ==
    IF ~(i < Len(fs)) THEN fs
    ELSE IF fs[i + 1].scheme = scheme
         THEN RemoveKeyExchangeFactoriesLoop(Splice(fs, i), IndexAfter(i, TRUE), scheme)
         ELSE RemoveKeyExchangeFactoriesLoop(fs, IndexAfter(i, FALSE), scheme)

\* the loop of getKeyExchangeFactory from index i on
RECURSIVE GetKeyExchangeFactoryLoop(_, _, _)
GetKeyExchangeFactoryLoop(fs, i, scheme) ==
    IF ~(i < Len(fs)) THEN UndefinedFactory
    ELSE IF fs[i + 1].scheme = scheme THEN fs[i + 1]
         ELSE GetKeyExchangeFactoryLoop(fs, i + 1, scheme)

\* a call of the context: the method, its scheme argument, _keyxFactories
\* when it was called and what it returned
MockCall(name, scheme, before, result) ==
    [op |-> name, scheme |-> scheme, before |-> before, result |-> result]
NoMockCall == MockCall("none", "undefined", <<>>, UndefinedFactory)

\* no MockMslContext constructed
NoMock == [pc |-> "none", keyxFactories |-> <<>>, adds |-> 0, call |-> NoMockCall]

VARIABLES
    auth,                   \* the entity authentication data under examination
    mock,                   \* the MockMslContext: _keyxFactories and its latest call
    construction,           \* the callback the constructor's caller received
    header,                 \* _header
    capabilities,           \* _capabilities
    compressionAlgo,        \* _compressionAlgo
    payloadSequenceNumber,  \* _payloadSequenceNumber
    currentPayload,         \* _currentPayload: null or the buffered segments
    closed,                 \* _closed
    closeDestination,       \* _closeDestination
    caching,                \* _caching
    payloads,               \* _payloads
    ready,                  \* _ready
    readyQueue,             \* _readyQueue: queued elements
    aborted,                \* _aborted
    timedout,               \* _timedout
    errored,                \* _errored
    hdr,                    \* header transmission: "write", "flush", "done";
                            \* "thrown" when destination.write threw in init
    hdrFault,               \* what the destination answered for the header:
                            \* "none", "timeout" or "error"
    op,                     \* the flush/close/setCompressionAlgorithm in flight
    written,                \* payload chunks the destination accepted, in order
    sinkAborted,            \* destination.abort() has been called
    sinkClosed,             \* number of destination.close() invocations
    sinkFault,              \* the destination answered some call with a failure,
                            \* or not within the timeout
    ncalls,                 \* number of method invocations so far
    accepted,               \* the bytes write() has accepted, in call order
    overlap,                \* a write() was accepted, or abort() called, while an
                            \* operation was in flight
    last                    \* the latest invocation that has received its callback

vars == <<auth, mock, construction, header, capabilities, compressionAlgo, payloadSequenceNumber,
          currentPayload, closed, closeDestination, caching, payloads, ready,
          readyQueue, aborted, timedout, errored, hdr, hdrFault, op, written,
          sinkAborted, sinkClosed, sinkFault, ncalls, accepted, overlap, last>>

(* --------------------------- pure functions ---------------------------- *)
\* MessageCapabilities$intersection: null if either side is null
MessageCapabilitiesIntersection(mc1, mc2) ==
    IF mc1.null \/ mc2.null THEN NullCaps
    ELSE Caps(mc1.compressionAlgorithms \cap mc2.compressionAlgorithms)

\* MslConstants$CompressionAlgorithm$getPreferredAlgorithm
GetPreferredAlgorithm(algos) ==
    IF GZIP \in algos THEN GZIP ELSE IF LZW \in algos THEN LZW ELSE NoAlgo

\* getMessageHeader() is null for error messages
HasMessageHeader(h) == h.type = "MessageHeader"

\* data.subarray(off, off + len)
SubArray(data, off, len) == SubSeq(data, off + 1, off + len)

\* the buffered segments copied into one Uint8Array
RECURSIVE Flatten(_)
Flatten(segs) ==
    IF segs = <<>> THEN <<>> ELSE Head(segs) \o Flatten(Tail(segs))

NullPayload == [null |-> TRUE, segs |-> <<>>]
EmptyPayload == [null |-> FALSE, segs |-> <<>>]

NoChunk ==
    [sequenceNumber |-> 0, messageId |-> 0, endofmsg |-> FALSE,
     compressionAlgo |-> NoAlgo, data |-> <<>>]

\* PayloadChunk$create: compression is skipped for empty data
PayloadChunk(sequenceNumber, messageId, endofmsg, algo, data) ==
    [sequenceNumber |-> sequenceNumber, messageId |-> messageId,
     endofmsg |-> endofmsg,
     compressionAlgo |-> IF data = <<>> THEN NoAlgo ELSE algo,
     data |-> data]

\* an invocation: the operation, its arguments, the flags it found, the step
\* of the operation that invoked the callback ("idle": within the call
\* itself), and the callback it received
NoFlags == [ab |-> FALSE, to |-> FALSE, er |-> FALSE]
NoCall ==
    [op |-> "none", algo |-> NoAlgo, data |-> <<>>, fl |-> NoFlags, rd |-> FALSE,
     hf |-> "none", cur |-> NoAlgo, busy |-> FALSE, ph |-> "idle", res |-> Pending,
     cbs |-> 0]

Idle ==
    [kind |-> "none", pc |-> "idle", inv |-> NoCall, algo |-> NoAlgo, chunk |-> NoChunk,
     nw |-> 0]

\* the flags checked in the order timed out, aborted, errored
FlagCheckTimeoutFirst(ab, to, er) ==
    IF to THEN TimeoutCb
    ELSE IF ab THEN ResFalse
    ELSE IF er # NoError THEN ErrorCb(er)
    ELSE Proceed

\* the flags every operation checks first: aborted, timed out, errored
FlagCheck(ab, to, er) ==
    IF ab THEN ResFalse
    ELSE IF to THEN TimeoutCb
    ELSE IF er # NoError THEN ErrorCb(er)
    ELSE Proceed

\* write() without the checks of the header
WriteOutcomeIgnoresHeader(ab, to, er, cl, h, a) ==
    IF FlagCheck(ab, to, er) # Proceed THEN FlagCheck(ab, to, er)
    ELSE IF cl THEN ErrorCb(ClosedError)
    ELSE IF a.off < 0 THEN ErrorCb(OffsetError)
    ELSE IF a.len < 0 THEN ErrorCb(LengthError)
    ELSE IF a.off + a.len > Len(a.data) THEN ErrorCb(BoundsError)
    ELSE ResCount(Len(SubArray(a.data, a.off, a.len)))

\* write() without the closed check
WriteOutcomeIgnoresClosed(ab, to, er, cl, h, a) ==
    IF FlagCheck(ab, to, er) # Proceed THEN FlagCheck(ab, to, er)
    ELSE IF a.off < 0 THEN ErrorCb(OffsetError)
    ELSE IF a.len < 0 THEN ErrorCb(LengthError)
    ELSE IF a.off + a.len > Len(a.data) THEN ErrorCb(BoundsError)
    ELSE IF ~HasMessageHeader(h) THEN ErrorCb(ErrorMessageError)
    ELSE IF h.handshake THEN ErrorCb(HandshakeError)
    ELSE ResCount(Len(SubArray(a.data, a.off, a.len)))

\* write(): the callback it invokes
WriteOutcome(ab, to, er, cl, h, a) ==
    IF FlagCheck(ab, to, er) # Proceed THEN FlagCheck(ab, to, er)
    ELSE IF cl THEN ErrorCb(ClosedError)
    ELSE IF a.off < 0 THEN ErrorCb(OffsetError)
    ELSE IF a.len < 0 THEN ErrorCb(LengthError)
    ELSE IF a.off + a.len > Len(a.data) THEN ErrorCb(BoundsError)
    ELSE IF ~HasMessageHeader(h) THEN ErrorCb(ErrorMessageError)
    ELSE IF h.handshake THEN ErrorCb(HandshakeError)
    ELSE ResCount(Len(SubArray(a.data, a.off, a.len)))

\* close() without the test of the closed mark
CloseOutcomeIgnoresClosed(ab, to, er, cl) ==
    IF FlagCheck(ab, to, er) # Proceed THEN FlagCheck(ab, to, er)
    ELSE Proceed

\* close(): what it does before the final flush
CloseOutcome(ab, to, er, cl) ==
    IF FlagCheck(ab, to, er) # Proceed THEN FlagCheck(ab, to, er)
    ELSE IF cl THEN ResTrue
    ELSE Proceed

\* perform() without the test for error and handshake messages
PerformOutcomeIgnoresHeader(ab, to, er, cp, cl, h) ==
    IF FlagCheck(ab, to, er) # Proceed THEN FlagCheck(ab, to, er)
    ELSE IF cp.null THEN ResTrue
    ELSE IF ~cl /\ Len(cp.segs) = 0 THEN ResTrue
    ELSE Proceed

\* flush(): perform() up to the creation of the payload chunk
PerformOutcome(ab, to, er, cp, cl, h) ==
    IF FlagCheck(ab, to, er) # Proceed THEN FlagCheck(ab, to, er)
    ELSE IF cp.null THEN ResTrue
    ELSE IF ~cl /\ Len(cp.segs) = 0 THEN ResTrue
    ELSE IF ~HasMessageHeader(h) \/ h.handshake THEN ResTrue
    ELSE Proceed

\* setCompressionAlgorithm() without the test for an error message
SetCompressionOutcomeIgnoresHeader(h, cur, caps, algo) ==
    IF cur = algo THEN ResTrue
    ELSE IF algo # NoAlgo
         THEN IF caps.null THEN ResFalse
              ELSE IF algo \in caps.compressionAlgorithms THEN Proceed
              ELSE ResFalse
         ELSE Proceed

\* setCompressionAlgorithm() without the test of the capabilities
SetCompressionOutcomeAnyAlgorithm(h, cur, caps, algo) ==
    IF ~HasMessageHeader(h) THEN ErrorCb(ErrorMessageError)
    ELSE IF cur = algo THEN ResTrue
    ELSE Proceed

\* setCompressionAlgorithm() without the test for missing capabilities
SetCompressionOutcomeNullCapabilities(h, cur, caps, algo) ==
    IF ~HasMessageHeader(h) THEN ErrorCb(ErrorMessageError)
    ELSE IF cur = algo THEN ResTrue
    ELSE IF algo # NoAlgo /\ ~caps.null /\ algo \notin caps.compressionAlgorithms
         THEN ResFalse
         ELSE Proceed

\* setCompressionAlgorithm(): what it does before the flush
SetCompressionOutcome(h, cur, caps, algo) ==
    IF ~HasMessageHeader(h) THEN ErrorCb(ErrorMessageError)
    ELSE IF cur = algo THEN ResTrue
    ELSE IF algo # NoAlgo
         THEN IF caps.null THEN ResFalse
              ELSE IF algo \in caps.compressionAlgorithms THEN Proceed
              ELSE ResFalse
         ELSE Proceed

Flags == [ab |-> aborted, to |-> timedout, er |-> errored # NoError]

Call(name, algo, data, res) ==
    [op |-> name, algo |-> algo, data |-> data, fl |-> Flags, rd |-> ready,
     hf |-> hdrFault, cur |-> compressionAlgo, busy |-> op.kind # "none",
     ph |-> "idle", res |-> res, cbs |-> IF res = Pending THEN 0 ELSE 1]

(* -------------------------------- Init --------------------------------- *)
\* the stream handed to the caller only once the header has been sent
ConstructionOutcomeDeferred(throws) ==
    IF throws THEN ErrorCb(SinkError) ELSE Pending

\* the callback of MessageOutputStream$create: init returns this right after
\* handing the header to destination.write; an exception thrown inside init
\* is delivered as error(e) and no stream is returned
ConstructionOutcome(throws) ==
    IF throws THEN ErrorCb(SinkError) ELSE ResStream

\* the stream as the constructor leaves it: header write handed to the
\* destination, the stream returned to the caller at once
StreamInit(c, throws) ==
        /\ construction = ConstructionOutcome(throws)
        /\ hdr = IF throws THEN "thrown" ELSE "write"
        /\ header = c.header
        /\ capabilities = MessageCapabilitiesIntersection(c.local, c.header.messageCapabilities)
        /\ compressionAlgo =
             GetPreferredAlgorithm(
                MessageCapabilitiesIntersection(c.local, c.header.messageCapabilities).compressionAlgorithms)
        /\ payloadSequenceNumber = 1
        /\ currentPayload = EmptyPayload
        /\ closed = FALSE
        /\ closeDestination = FALSE
        /\ caching = TRUE
        /\ payloads = <<>>
        /\ ready = FALSE
        /\ readyQueue = <<>>
        /\ aborted = FALSE
        /\ timedout = FALSE
        /\ errored = NoError
        /\ hdrFault = "none"
        /\ op = Idle
        /\ written = <<>>
        /\ sinkAborted = FALSE
        /\ sinkClosed = 0
        /\ sinkFault = FALSE
        /\ ncalls = 0
        /\ accepted = <<>>
        /\ overlap = FALSE
        /\ last = NoCall

\* no entity authentication data is examined while a stream runs
Init ==
    \E c \in Configs, throws \in BOOLEAN :
        StreamInit(c, throws) /\ auth = NoAuth /\ mock = NoMock


(* ------------------- callbacks of an operation in flight --------------- *)
\* payloadBytes.length of a serialized chunk, and chunk.length: a
\* PayloadChunk has no length property
Undefined == -1
PayloadBytesLength(chunk) == Len(chunk.data) + 1
ChunkLength(chunk) == Undefined

\* JavaScript a < b: false when b is undefined
JsLess(a, b) == IF b = Undefined THEN FALSE ELSE a < b

\* the number of bytes the destination reports for a full / short write
NumWritten(r, n) == IF r = "full" THEN n ELSE n - 1

\* an operation that goes on after it has invoked its callback
FinishAndContinue(o, r) ==
    /\ last' = [o.inv EXCEPT !.res = r, !.ph = o.pc, !.cbs = @ + 1]
    /\ op' = [o EXCEPT !.inv.cbs = @ + 1]

\* the operation's own callback is invoked with r, and nothing of the
\* operation is left in flight; cbs counts the callbacks of the invocation
Finish(o, r) ==
    /\ last' = [o.inv EXCEPT !.res = r, !.ph = o.pc, !.cbs = @ + 1]
    /\ op' = Idle

\* an aborted flush reported as result(false) instead of an error
SetCompressionFlushResultBenign(success) == ResBool(success)

\* setCompressionAlgorithm(): the result callback of its flush
SetCompressionFlushResult(success) ==
    IF success THEN ResTrue ELSE ErrorCb(FlushAbortedError)

\* close() closing the destination whether or not the caller asked for it
CloseClosesDestinationAlways(success, cd) == TRUE

\* the algorithm left as it is after a successful flush
SetCompressionSwitchesNever(success) == FALSE

\* the algorithm switched whatever the flush reported
SetCompressionSwitchesAlways(success) == TRUE

\* setCompressionAlgorithm(): _compressionAlgo is assigned in the result
\* callback of its flush, after the test of success
SetCompressionSwitches(success) == success

\* close(): the destination is closed after the final flush reported a result
CloseClosesDestination(success, cd) == cd

\* close(): the buffer is dropped once the final flush succeeded
CloseDropsPayload(success) == success

\* flush() invokes the callback it was given with fr; cp is the buffer flush
\* leaves behind.  close() and setCompressionAlgorithm() continue from here.
Deliver(o, fr, cp) ==
    IF o.kind = "close" /\ fr.k \in {"true", "false"}
    THEN /\ currentPayload' = IF CloseDropsPayload(fr.k = "true") THEN NullPayload ELSE cp
         /\ compressionAlgo' = compressionAlgo
         /\ IF CloseClosesDestination(fr.k = "true", closeDestination)
            THEN /\ sinkClosed' = sinkClosed + 1
                 /\ op' = [o EXCEPT !.pc = "destClose"]
                 /\ last' = last
            ELSE /\ sinkClosed' = sinkClosed
                 /\ Finish(o, fr)
    ELSE IF o.kind = "setCompressionAlgorithm" /\ fr.k \in {"true", "false"}
    THEN /\ currentPayload' = cp
         /\ sinkClosed' = sinkClosed
         /\ compressionAlgo' = IF SetCompressionSwitches(fr.k = "true") THEN o.algo
                                ELSE compressionAlgo
         /\ Finish(o, SetCompressionFlushResult(fr.k = "true"))
    ELSE /\ currentPayload' = cp
         /\ sinkClosed' = sinkClosed
         /\ compressionAlgo' = compressionAlgo
         /\ Finish(o, fr)

\* the end-of-message flag handed to PayloadChunk$create: this._closed
EndOfMessageNever(cl) == FALSE
EndOfMessage(cl) == cl

\* flush(): perform(), with the flags and the closed mark it reads
Perform(o, ab, to, er, cl) ==
    LET r == PerformOutcome(ab, to, er, currentPayload, cl, header) IN
    IF r = Proceed
    THEN /\ op' = [o EXCEPT !.pc = "create",
                            !.chunk = PayloadChunk(payloadSequenceNumber, header.messageId,
                                                   EndOfMessage(cl), compressionAlgo,
                                                   Flatten(currentPayload.segs))]
         /\ last' = last
         /\ UNCHANGED <<currentPayload, compressionAlgo, sinkClosed>>
    ELSE Deliver(o, r, currentPayload)

\* flush() performing without waiting for readiness
StartFlushNoWait(o, cl) ==
    /\ Perform(o, aborted, timedout, errored, cl)
    /\ readyQueue' = readyQueue

\* flush(): perform at once when ready, otherwise poll the readiness queue
StartFlush(o, cl) ==
    IF ready
    THEN /\ Perform(o, aborted, timedout, errored, cl)
         /\ readyQueue' = readyQueue
    ELSE IF readyQueue # <<>>
    THEN /\ Perform(o, aborted, timedout, errored, cl)
         /\ readyQueue' = Tail(readyQueue)
    ELSE /\ op' = [o EXCEPT !.pc = "waitReady"]
         /\ last' = last
         /\ UNCHANGED <<readyQueue, currentPayload, compressionAlgo, sinkClosed>>

NewOp(kind, algo) ==
    [Idle EXCEPT !.kind = kind, !.algo = algo, !.inv = Call(kind, algo, <<>>, Pending)]

(* ------------------------------ operations ----------------------------- *)
Write(a) ==
    /\ construction = ResStream
    /\ ncalls < MaxCalls
    /\ ncalls' = ncalls + 1
    /\ LET r == WriteOutcome(aborted, timedout, errored, closed, header, a)
           bytes == IF r.k = "count" THEN SubArray(a.data, a.off, a.len) ELSE <<>>
       IN /\ last' = Call("write", NoAlgo, bytes, r)
          /\ accepted' = accepted \o bytes
          /\ overlap' = (overlap \/ (r.k = "count" /\ op.kind # "none"))
          /\ currentPayload' =
               IF r.k = "count"
               THEN [currentPayload EXCEPT !.segs = Append(@, bytes)]
               ELSE currentPayload
    /\ UNCHANGED <<auth, mock, construction, header, capabilities, compressionAlgo, payloadSequenceNumber,
                   closed, closeDestination, caching, payloads, ready, readyQueue,
                   aborted, timedout, errored, hdr, hdrFault, op, written, sinkAborted,
                   sinkClosed, sinkFault>>

Flush ==
    /\ construction = ResStream
    /\ ncalls < MaxCalls
    /\ op = Idle
    /\ ncalls' = ncalls + 1
    /\ StartFlush(NewOp("flush", NoAlgo), closed)
    /\ UNCHANGED <<auth, mock, construction, header, capabilities, payloadSequenceNumber, closed,
                   closeDestination, caching, payloads, ready, aborted, timedout,
                   errored, hdr, hdrFault, written, sinkAborted, sinkFault, accepted, overlap>>

Close ==
    /\ construction = ResStream
    /\ ncalls < MaxCalls
    /\ op = Idle
    /\ ncalls' = ncalls + 1
    /\ LET r == CloseOutcome(aborted, timedout, errored, closed) IN
       IF r # Proceed
       THEN /\ last' = Call("close", NoAlgo, <<>>, r)
            /\ UNCHANGED <<closed, op, currentPayload, compressionAlgo, sinkClosed,
                           readyQueue>>
       ELSE /\ closed' = TRUE
            /\ StartFlush(NewOp("close", NoAlgo), TRUE)
    /\ UNCHANGED <<auth, mock, construction, header, capabilities, payloadSequenceNumber, closeDestination,
                   caching, payloads, ready, aborted, timedout, errored, hdr, hdrFault,
                   written, sinkAborted, sinkFault, accepted, overlap>>

SetCompressionAlgorithm(a) ==
    /\ construction = ResStream
    /\ ncalls < MaxCalls
    /\ op = Idle
    /\ ncalls' = ncalls + 1
    /\ LET r == SetCompressionOutcome(header, compressionAlgo, capabilities, a) IN
       IF r # Proceed
       THEN /\ last' = Call("setCompressionAlgorithm", a, <<>>, r)
            /\ UNCHANGED <<op, currentPayload, compressionAlgo, sinkClosed, readyQueue>>
       ELSE StartFlush(NewOp("setCompressionAlgorithm", a), closed)
    /\ UNCHANGED <<auth, mock, construction, header, capabilities, payloadSequenceNumber, closed,
                   closeDestination, caching, payloads, ready, aborted, timedout,
                   errored, hdr, hdrFault, written, sinkAborted, sinkFault, accepted, overlap>>

\* abort(): cancelAll() answers a waiting poll with undefined, which flush
\* reports as result(false)
Abort ==
    /\ construction = ResStream
    /\ ncalls < MaxCalls
    /\ ncalls' = ncalls + 1
    /\ aborted' = TRUE
    /\ sinkAborted' = TRUE
    /\ overlap' = (overlap \/ op.kind # "none")
    /\ IF op.pc = "waitReady"
       THEN Deliver(op, ResFalse, currentPayload)
       ELSE UNCHANGED <<last, op, currentPayload, compressionAlgo, sinkClosed>>
    /\ UNCHANGED <<auth, mock, construction, header, capabilities, payloadSequenceNumber, closed,
                   closeDestination, caching, payloads, ready, readyQueue, timedout,
                   errored, hdr, hdrFault, written, sinkFault, accepted>>

\* stopCaching() that leaves the cached chunks in place
StopCachingKeepsPayloads ==
    /\ construction = ResStream
    /\ ncalls < MaxCalls
    /\ ncalls' = ncalls + 1
    /\ caching' = FALSE
    /\ UNCHANGED <<auth, mock, construction, header, capabilities, compressionAlgo,
                   payloadSequenceNumber, currentPayload, closed, closeDestination,
                   payloads, ready, readyQueue, aborted, timedout, errored, hdr,
                   hdrFault, op, written, sinkAborted, sinkClosed, sinkFault,
                   accepted, overlap, last>>

StopCaching ==
    /\ construction = ResStream
    /\ ncalls < MaxCalls
    /\ ncalls' = ncalls + 1
    /\ caching' = FALSE
    /\ payloads' = <<>>
    /\ UNCHANGED <<auth, mock, construction, header, capabilities, compressionAlgo, payloadSequenceNumber,
                   currentPayload, closed, closeDestination, ready, readyQueue,
                   aborted, timedout, errored, hdr, hdrFault, op, written, sinkAborted,
                   sinkClosed, sinkFault, accepted, overlap, last>>

CloseDestination(close) ==
    /\ construction = ResStream
    /\ ncalls < MaxCalls
    /\ ncalls' = ncalls + 1
    /\ closeDestination' = close
    /\ UNCHANGED <<auth, mock, construction, header, capabilities, compressionAlgo, payloadSequenceNumber,
                   currentPayload, closed, caching, payloads, ready, readyQueue,
                   aborted, timedout, errored, hdr, hdrFault, op, written, sinkAborted,
                   sinkClosed, sinkFault, accepted, overlap, last>>


(* ----------------------- header transmission --------------------------- *)
\* a header transmission that ends without calling ready()
HeaderDoneWithoutReady(to, er) ==
    /\ hdr' = "done"
    /\ timedout' = to
    /\ errored' = er
    /\ UNCHANGED <<ready, readyQueue, last, op, currentPayload, compressionAlgo,
                   sinkClosed>>

\* ready(): _ready = true and _readyQueue.add(true); add() hands the element
\* to a waiting poll, whose result callback runs perform()
HeaderDone(to, er) ==
    /\ ready' = TRUE
    /\ hdr' = "done"
    /\ timedout' = to
    /\ errored' = er
    /\ IF op.pc = "waitReady"
       THEN /\ Perform(op, aborted, to, er, closed)
            /\ readyQueue' = readyQueue
       ELSE /\ readyQueue' = Append(readyQueue, TRUE)
            /\ UNCHANGED <<last, op, currentPayload, compressionAlgo, sinkClosed>>

\* _timedout after the header write reported numWritten
HeaderWriteTimedOut(short) == short

\* an unsuccessful header flush that is not recorded
HeaderFlushTimedOutNever(success) == FALSE

\* _timedout after the header flush reported success
HeaderFlushTimedOut(success) == ~success

\* the destination's answer to the header write; destination.flush is only
\* called, and so can only throw, after a full write on a stream not aborted
HeaderWriteFault(r, ab) ==
    IF r \in {"short", "timeout"} THEN "timeout"
    ELSE IF r = "error" \/ (r = "throws" /\ ~ab) THEN "error"
    ELSE "none"

\* the callback of destination.write(headerBytes): result(numWritten) with
\* the full or a short count, result with destination.flush throwing,
\* timeout() or error(e)
HeaderWriteCallback ==
    /\ hdr = "write"
    /\ \E r \in {"full", "short", "throws", "timeout", "error"} :
         /\ sinkFault' = (sinkFault \/ r # "full")
         /\ hdrFault' = HeaderWriteFault(r, aborted)
         /\ IF r \in {"full", "short", "throws"}
            THEN IF aborted THEN HeaderDone(timedout, errored)
                 ELSE IF HeaderWriteTimedOut(r = "short") THEN HeaderDone(TRUE, errored)
                 ELSE IF r = "throws" THEN HeaderDone(timedout, SinkError)
                 ELSE /\ hdr' = "flush"
                      /\ UNCHANGED <<ready, timedout, errored, readyQueue, last, op,
                                     currentPayload, compressionAlgo, sinkClosed>>
            ELSE IF r = "timeout" THEN HeaderDone(TRUE, errored)
            ELSE HeaderDone(timedout, SinkError)
    /\ UNCHANGED <<auth, mock, construction, header, capabilities, payloadSequenceNumber, closed,
                   closeDestination, caching, payloads, aborted, written,
                   sinkAborted, ncalls, accepted, overlap>>

\* the callback of destination.flush() for the header
HeaderFlushCallback ==
    /\ hdr = "flush"
    /\ \E r \in {"true", "false", "timeout", "error"} :
         /\ sinkFault' = (sinkFault \/ r # "true")
         /\ hdrFault' = IF r = "true" THEN "none"
                        ELSE IF r = "error" THEN "error" ELSE "timeout"
         /\ IF r \in {"true", "false"}
            THEN IF aborted THEN HeaderDone(timedout, errored)
                 ELSE HeaderDone(HeaderFlushTimedOut(r = "true"), errored)
            ELSE IF r = "timeout" THEN HeaderDone(TRUE, errored)
            ELSE HeaderDone(timedout, SinkError)
    /\ UNCHANGED <<auth, mock, construction, header, capabilities, payloadSequenceNumber, closed,
                   closeDestination, caching, payloads, aborted, written,
                   sinkAborted, ncalls, accepted, overlap>>

(* ------------------------- flush in flight ----------------------------- *)
\* _readyQueue.poll(timeout, ...) times out before the header is done
PollTimeout ==
    /\ op.pc = "waitReady"
    /\ sinkFault' = TRUE
    /\ Deliver(op, TimeoutCb, currentPayload)
    /\ UNCHANGED <<auth, mock, construction, header, capabilities, payloadSequenceNumber, closed,
                   closeDestination, caching, payloads, ready, readyQueue, aborted,
                   timedout, errored, hdr, hdrFault, written, sinkAborted, ncalls,
                   accepted, overlap>>

\* a cache filled before the chunk exists
CachedPayloadsUnconditionally(c, ps, chunk, created) ==
    IF c THEN Append(ps, chunk) ELSE ps

\* _payloads after the callback of PayloadChunk$create: the result callback
\* pushes the chunk while caching, the error callback does not
CachedPayloads(c, ps, chunk, created) ==
    IF created /\ c THEN Append(ps, chunk) ELSE ps

\* the callback of PayloadChunk$create: result(chunk) or error(e)
CreateCallback ==
    /\ op.pc = "create"
    /\ \E r \in {"result", "error"} :
         /\ payloads' = CachedPayloads(caching, payloads, op.chunk, r = "result")
         /\ IF r = "result"
            THEN /\ op' = [op EXCEPT !.pc = "write"]
                 /\ UNCHANGED <<last, currentPayload, compressionAlgo, sinkClosed>>
            ELSE Deliver(op, ErrorCb(EncodingError), currentPayload)
    /\ UNCHANGED <<auth, mock, construction, header, capabilities, payloadSequenceNumber, closed,
                   closeDestination, caching, ready, readyQueue, aborted, timedout,
                   errored, hdr, hdrFault, written, sinkAborted, sinkFault, ncalls, accepted,
                   overlap>>

\* the callback of destination.write(payloadBytes)
SinkWriteAnswer(r) ==
    /\ op.pc = "write"
    /\ sinkFault' = (sinkFault \/ r # "full")
    /\ IF r \in {"full", "short"}
       THEN /\ written' = Append(written, op.chunk)
            /\ IF aborted THEN Deliver(op, ResFalse, currentPayload)
               ELSE IF JsLess(NumWritten(r, PayloadBytesLength(op.chunk)),
                              ChunkLength(op.chunk))
               THEN Deliver(op, TimeoutCb, currentPayload)
               ELSE /\ op' = [op EXCEPT !.pc = "flush",
                                        !.nw = NumWritten(r, PayloadBytesLength(op.chunk))]
                    /\ UNCHANGED <<last, currentPayload, compressionAlgo, sinkClosed>>
       ELSE /\ written' = written
            /\ Deliver(op,
                       IF r = "timeout" THEN TimeoutCb ELSE ErrorCb(SinkError),
                       currentPayload)
    /\ UNCHANGED <<auth, mock, construction, header, capabilities, payloadSequenceNumber, closed,
                   closeDestination, caching, payloads, ready, readyQueue, aborted,
                   timedout, errored, hdr, hdrFault, sinkAborted, ncalls, accepted, overlap>>

SinkWriteCallback ==
    \E r \in {"full", "short", "timeout", "error"} : SinkWriteAnswer(r)

\* the buffer after a payload chunk has been flushed
PayloadAfterFlush(cl) == IF cl THEN NullPayload ELSE EmptyPayload

\* the callback of destination.flush() for a payload chunk
SinkFlushCallback ==
    /\ op.pc = "flush"
    /\ \E r \in {"true", "false", "timeout", "error"} :
         /\ sinkFault' = (sinkFault \/ r # "true")
         /\ IF r \in {"true", "false"} /\ aborted
            THEN /\ Deliver(op, ResFalse, currentPayload)
                 /\ payloadSequenceNumber' = payloadSequenceNumber
            ELSE IF r = "true"
            THEN /\ payloadSequenceNumber' = payloadSequenceNumber + 1
                 /\ Deliver(op, ResTrue, PayloadAfterFlush(closed))
            ELSE /\ payloadSequenceNumber' = payloadSequenceNumber
                 /\ Deliver(op,
                            IF r = "error" THEN ErrorCb(SinkError) ELSE TimeoutCb,
                            currentPayload)
    /\ UNCHANGED <<auth, mock, construction, header, capabilities, closed, closeDestination, caching, payloads,
                   ready, readyQueue, aborted, timedout, errored, hdr, hdrFault, written,
                   sinkAborted, ncalls, accepted, overlap>>

\* the callback of destination.close(), which is close()'s own callback
DestinationCloseCallback ==
    /\ op.pc = "destClose"
    /\ \E r \in {ResTrue, ResFalse, TimeoutCb, ErrorCb(SinkError)} :
         /\ sinkFault' = (sinkFault \/ r # ResTrue)
         /\ Finish(op, r)
    /\ UNCHANGED <<auth, mock, construction, header, capabilities, compressionAlgo, payloadSequenceNumber,
                   currentPayload, closed, closeDestination, caching, payloads,
                   ready, readyQueue, aborted, timedout, errored, hdr, hdrFault, written,
                   sinkAborted, sinkClosed, ncalls, accepted, overlap>>

(* ------------------------------ behaviours ----------------------------- *)
Next ==
    \/ \E a \in WriteInputs : Write(a)
    \/ Flush
    \/ Close
    \/ \E a \in Algos : SetCompressionAlgorithm(a)
    \/ Abort
    \/ StopCaching
    \/ \E b \in BOOLEAN : CloseDestination(b)
    \/ HeaderWriteCallback
    \/ HeaderFlushCallback
    \/ PollTimeout
    \/ CreateCallback
    \/ SinkWriteCallback
    \/ SinkFlushCallback
    \/ DestinationCloseCallback

Spec == Init /\ [][Next]_vars

\* the destination answers every write, flush and close it is given,
\* PayloadChunk$create answers, and a poll of the readiness queue that is
\* handed no element times out
Fairness ==
    /\ WF_vars(HeaderWriteCallback)
    /\ WF_vars(HeaderFlushCallback)
    /\ WF_vars(PollTimeout)
    /\ WF_vars(CreateCallback)
    /\ WF_vars(SinkWriteCallback)
    /\ WF_vars(SinkFlushCallback)
    /\ WF_vars(DestinationCloseCallback)

FairSpec == Spec /\ Fairness

(* ------------- entity authentication data: the operations -------------- *)
\* two instances a and b of one class are constructed, a is serialized, the
\* serialization parsed, the parsed instance serialized again, and the
\* instances compared with each other, with null, with a string and with an
\* instance of another class
AuthInit ==
    /\ StreamInit(CHOOSE c \in Configs : ~HasMessageHeader(c.header), TRUE)
    /\ mock = NoMock
    /\ \E cls \in Classes : \E args \in ArgsOf(cls), args2 \in ArgsOf(cls) :
           auth = [NoAuth EXCEPT !.pc = "new", !.cls = cls, !.args = args,
                                 !.args2 = args2, !.next = MaxCerts + 1]

StreamUnchanged ==
    UNCHANGED <<construction, header, capabilities, compressionAlgo,
                payloadSequenceNumber, currentPayload, closed, closeDestination,
                caching, payloads, ready, readyQueue, aborted, timedout, errored,
                hdr, hdrFault, op, written, sinkAborted, sinkClosed, sinkFault,
                ncalls, accepted, overlap, last>>

\* new X(...) twice
AuthConstruct ==
    /\ auth.pc = "new"
    /\ auth' = [auth EXCEPT !.pc = "constructed",
                            !.a = New(auth.cls, auth.next, auth.args),
                            !.b = New(auth.cls, auth.next + 1, auth.args2),
                            !.next = auth.next + 2]
    /\ StreamUnchanged /\ UNCHANGED mock

\* a.getAuthData()
AuthGetAuthData ==
    /\ auth.pc = "constructed"
    /\ auth' = [auth EXCEPT !.pc = "serialized", !.jo = GetAuthData(auth.a)]
    /\ StreamUnchanged /\ UNCHANGED mock

\* what reaches the parser is not what getAuthData() returned: a key was
\* deleted (delete authdata[KEY_IDENTITY]), or the certificate is a text
\* that is no Base64 encoding of a certificate
Tampered(jo) ==
    { [jo EXCEPT !.identity = JsUndefined],
      [jo EXCEPT !.x509certificate = JsUndefined],
      [jo EXCEPT !.x509chain = JsUndefined],
      [jo EXCEPT !.x509certificate = JsString("garbage")] } \ {jo}

AuthTamper ==
    /\ auth.pc = "serialized"
    /\ \E jo \in Tampered(auth.jo) :
           auth' = [auth EXCEPT !.pc = "tampered", !.jo = jo]
    /\ StreamUnchanged /\ UNCHANGED mock

\* X$parse(jo)
AuthParse ==
    /\ auth.pc \in {"serialized", "tampered"}
    /\ auth' = [auth EXCEPT !.pc = "parsed",
                            !.parsed = Parse(auth.cls, auth.next, auth.jo),
                            !.next = auth.next + 2]
    /\ StreamUnchanged /\ UNCHANGED mock

\* getAuthData() of the parsed instance
AuthReserialize ==
    /\ auth.pc = "parsed"
    /\ auth.parsed.k = "instance"
    /\ auth' = [auth EXCEPT !.pc = "reserialized", !.jo2 = GetAuthData(auth.parsed.v)]
    /\ StreamUnchanged /\ UNCHANGED mock

\* an instance of another class with the identity of a
OtherInstance(this, ref) ==
    IF this.cls = "Preshared"
    THEN AuthData("X509", ref, X509Scheme, this.identity, JsNull, JsNull)
    ELSE PresharedAuthenticationData(ref, this.identity)

\* the equals() calls
AuthEquals ==
    /\ \/ auth.pc = "reserialized"
       \/ auth.pc = "parsed" /\ auth.parsed.k = "thrown"
    /\ LET a == auth.a
           b == auth.b
           p == auth.parsed.v
           o == OtherInstance(auth.a, auth.next)
       IN auth' = [auth EXCEPT !.pc = "compared",
                               !.next = auth.next + 1,
                               !.eq = [aa |-> Equals(a, a), ab |-> Equals(a, b),
                                       ba |-> Equals(b, a), ap |-> Equals(a, p),
                                       pa |-> Equals(p, a),
                                       null |-> Equals(a, JsNull),
                                       string |-> Equals(a, JsString("identity")),
                                       other |-> Equals(a, o),
                                       rehto |-> Equals(o, a)]]
    /\ StreamUnchanged /\ UNCHANGED mock

AuthNext ==
    \/ AuthConstruct
    \/ AuthGetAuthData
    \/ AuthTamper
    \/ AuthParse
    \/ AuthReserialize
    \/ AuthEquals

AuthSpec == AuthInit /\ [][AuthNext]_vars

(* ------------------- MockMslContext: the operations -------------------- *)
MockInit ==
    /\ StreamInit(CHOOSE c \in Configs : ~HasMessageHeader(c.header), TRUE)
    /\ auth = NoAuth
    /\ mock = [NoMock EXCEPT !.pc = "constructed", !.keyxFactories = InitialKeyxFactories]

AddKeyExchangeFactory(scheme) ==
    /\ mock.pc = "constructed"
    /\ mock.adds < MaxAdds
    /\ LET factory == KeyExchangeFactory(Len(InitialKeyxFactories) + mock.adds + 1, scheme)
       IN mock' = [mock EXCEPT !.keyxFactories = Append(@, factory),
                               !.adds = @ + 1,
                               !.call = MockCall("add", scheme, mock.keyxFactories,
                                                 UndefinedFactory)]
    /\ StreamUnchanged /\ UNCHANGED auth

RemoveKeyExchangeFactories(scheme) ==
    /\ mock.pc = "constructed"
    /\ mock' = [mock EXCEPT !.keyxFactories =
                                RemoveKeyExchangeFactoriesLoop(mock.keyxFactories, 0, scheme),
                            !.call = MockCall("remove", scheme, mock.keyxFactories,
                                              UndefinedFactory)]
    /\ StreamUnchanged /\ UNCHANGED auth

GetKeyExchangeFactory(scheme) ==
    /\ mock.pc = "constructed"
    /\ mock' = [mock EXCEPT !.call =
                    MockCall("get", scheme, mock.keyxFactories,
                             GetKeyExchangeFactoryLoop(mock.keyxFactories, 0, scheme))]
    /\ StreamUnchanged /\ UNCHANGED auth

MockNext ==
    \/ \E scheme \in KeyExchangeSchemes : AddKeyExchangeFactory(scheme)
    \/ \E scheme \in KeyExchangeSchemes : RemoveKeyExchangeFactories(scheme)
    \/ \E scheme \in KeyExchangeSchemes : GetKeyExchangeFactory(scheme)

MockSpec == MockInit /\ [][MockNext]_vars

TypeOK ==
    /\ payloadSequenceNumber \in 1..(MaxCalls + 1)
    /\ Len(written) <= MaxCalls
    /\ ncalls \in 0..MaxCalls
    /\ op.kind = "none" <=> op.pc = "idle"


(* ------------------------------ properties ----------------------------- *)
DataBearing == HasMessageHeader(header) /\ ~header.handshake

\* the data of the chunks the destination accepted, in the order written
RECURSIVE WrittenData(_)
WrittenData(cs) ==
    IF cs = <<>> THEN <<>> ELSE Head(cs).data \o WrittenData(Tail(cs))

\* C1: the chunks written to the destination carry the sequence numbers
\* 1, 2, 3, ... without gap or repeat
C1_SequenceNumbers ==
    \A i \in 1..Len(written) : written[i].sequenceNumber = i

\* C2: on a data-bearing stream an end-of-message chunk is the last chunk
\* written: no chunk, and no second end-of-message chunk, follows it
C2_EndOfMessageLast ==
    DataBearing =>
        \A i \in 1..Len(written) : written[i].endofmsg => i = Len(written)

\* C3: a close() that succeeds on a data-bearing stream that never accepted a
\* byte has emitted exactly one chunk: number 1, end of message, no data
C3_CloseEmptyStream ==
    (DataBearing /\ accepted = <<>> /\ last.op = "close" /\ last.res = ResTrue)
        => /\ Len(written) = 1
           /\ written[1].sequenceNumber = 1
           /\ written[1].endofmsg
           /\ written[1].data = <<>>

\* the scenario of C4: LZW negotiated, write(10 bytes) and then close() are
\* the only two invocations, close() has reported success, the destination
\* never failed
C4_Scenario ==
    /\ DataBearing
    /\ capabilities = Caps({LZW})
    /\ ncalls = 2
    /\ accepted = TenBytes
    /\ last.op = "close"
    /\ last.res = ResTrue
    /\ ~sinkFault

C5_AcceptedBytesWritten ==
    (DataBearing /\ ~overlap /\ ~sinkFault) =>
        /\ (last.op = "close" /\ last.res = ResTrue) => WrittenData(written) = accepted
        /\ (last.op = "flush" /\ last.res = ResTrue /\ ~closed) => currentPayload = EmptyPayload

\* C6: a write(), flush() or close() invoked after abort() completes with
\* result false, never with the timeout or the error callback
C6_AfterAbortFalse ==
    (last.op \in {"write", "flush", "close"} /\ last.fl.ab) => last.res = ResFalse

\* C7: abort() releases a flush() or close() that waits for readiness: the
\* operation completes with result false, no chunk is written, and the abort
\* reaches the destination
C7_AbortReleasesWaiter ==
    [][(Abort /\ op.pc = "waitReady" /\ op.kind \in {"flush", "close"})
         => /\ op' = Idle
            /\ last' = [op.inv EXCEPT !.res = ResFalse, !.ph = "waitReady", !.cbs = 1]
            /\ written' = written
            /\ sinkAborted']_vars

\* the algorithm asked for is null or in the negotiated set
Supported(algo) ==
    algo = NoAlgo \/ (~capabilities.null /\ algo \in capabilities.compressionAlgorithms)

FlagOutcome(fl) ==
    IF fl.ab THEN ResFalse ELSE IF fl.to THEN TimeoutCb ELSE ErrorCb(errored)

\* C9: with flags set, write(), flush() and close() answer by the first of
\* aborted (result false), timed out (timeout callback), errored (the error
\* re-raised), before the closed check and the argument checks
C9_FlagPriority ==
    (/\ last.op \in {"write", "close"} \/ (last.op = "flush" /\ last.rd)
     /\ last.fl.ab \/ last.fl.to \/ last.fl.er)
        => last.res = FlagOutcome(last.fl)

C9_Witness ==
    /\ last.op = "write" /\ last.fl.ab /\ last.fl.to
    /\ closed
    /\ last.res = ResFalse

\* C10: a header transmission that timed out or failed is recorded; absent
\* abort every later write(), flush() and close() reports it, and no payload
\* chunk is ever created or written
C10_HeaderFailureRecorded ==
    /\ (hdrFault = "timeout" /\ ~aborted) => timedout
    /\ (hdrFault = "error" /\ ~aborted) => errored # NoError
    /\ (last.op \in {"write", "flush", "close"} /\ ~last.fl.ab /\ last.hf = "timeout")
          => last.res = TimeoutCb
    /\ (last.op \in {"write", "flush", "close"} /\ ~last.fl.ab /\ last.hf = "error")
          => last.res = ErrorCb(errored)
    /\ hdrFault # "none" => (written = <<>> /\ payloads = <<>>)

C10_Witness ==
    /\ DataBearing /\ hdrFault = "timeout" /\ ~aborted
    /\ last.op = "flush" /\ last.hf = "timeout" /\ last.res = TimeoutCb
    /\ currentPayload.segs # <<>>

\* the latest completed invocation is a flush() or close() that reported a
\* timeout or an error while its payload chunk was being written or flushed
MidStreamFailure ==
    /\ last.op \in {"flush", "close"}
    /\ last.ph \in {"write", "flush"}
    /\ last.res.k \in {"timeout", "error"}

\* C11: after a flush() or close() has reported a timeout or a sink error
\* while writing a payload chunk, the next write(), flush() or close() on a
\* stream not aborted reports the same failure and starts no work
C11_MidStreamFailureReplayed ==
    [][(/\ MidStreamFailure /\ ~aborted
        /\ (\E a \in WriteInputs : Write(a)) \/ Flush \/ Close)
         => /\ op' = Idle
            /\ last'.res = last.res
            /\ currentPayload' = currentPayload]_vars

\* a payload chunk is being created or written, or has been written or cached
ChunkInHand ==
    op.pc \in {"create", "write", "flush"} \/ written # <<>> \/ payloads # <<>>

\* C12: a payload chunk is created or written only after the header write
\* and the header flush have succeeded; a flush() or close() invoked earlier
\* waits, and when the header transmission completes it reports the recorded
\* abort, timeout or error without making a chunk, or else performs its work
C12_HeaderBeforePayload ==
    /\ [](ChunkInHand =>
            (hdr = "done" /\ hdrFault = "none" /\ ready /\ ~timedout /\ errored = NoError))
    /\ [](op.pc = "waitReady" => (~ready /\ hdr \in {"write", "flush"}))
    /\ [][(op.pc = "waitReady" /\ op.kind \in {"flush", "close"} /\ ready')
            => IF aborted \/ timedout' \/ errored' # NoError
               THEN /\ op' = Idle
                    /\ last' = [op.inv EXCEPT !.res = FlagCheck(aborted, timedout', errored'),
                                              !.ph = "waitReady", !.cbs = 1]
                    /\ written' = written /\ payloads' = payloads
               ELSE \/ op'.pc \in {"create", "destClose"}
                    \/ (op' = Idle /\ last'.res = ResTrue)]_vars

C12_Witness ==
    /\ last.op = "flush" /\ ~last.rd /\ last.ph = "flush" /\ last.res = ResTrue
    /\ Len(written) = 1 /\ written[1].data # <<>>

\* the header could not be written: the destination threw, or answered the
\* header write or the header flush with a timeout or an error
HeaderNotWritten == hdr = "thrown" \/ hdrFault # "none"

WriteChangesNothing ==
    UNCHANGED <<currentPayload, payloadSequenceNumber, payloads, written,
                sinkClosed, sinkAborted, accepted, op>>

\* C14 as claimed: every write() on a stream on which close() has been
\* called reports the error "already closed" and changes nothing
C14_WriteAfterCloseAlwaysClosedError ==
    [][((\E a \in WriteInputs : Write(a)) /\ closed)
         => /\ last'.res = ErrorCb(ClosedError)
            /\ WriteChangesNothing]_vars

\* C14 amended: a write() on a stream on which close() has been called
\* changes nothing and reports "already closed", unless the stream is aborted
\* or a header timeout or error is recorded, which is reported first
C14_WriteAfterClose ==
    [][((\E a \in WriteInputs : Write(a)) /\ closed)
         => /\ last'.op = "write"
            /\ last'.res = IF aborted \/ timedout \/ errored # NoError
                           THEN FlagOutcome(Flags)
                           ELSE ErrorCb(ClosedError)
            /\ WriteChangesNothing]_vars

C14_Witness ==
    /\ last.op = "write" /\ last.res = ErrorCb(ClosedError)
    /\ op.kind = "close" /\ op.pc = "write"
    /\ currentPayload.segs # <<>>

\* an open stream with no flag set
OpenHealthy == ~closed /\ ~aborted /\ ~timedout /\ errored = NoError

\* the internal error write() raises for the header of the stream
HeaderTypeError ==
    IF HasMessageHeader(header) THEN ErrorCb(HandshakeError)
    ELSE ErrorCb(ErrorMessageError)

\* the slice write() is asked for lies within the array
InRange(a) == a.off >= 0 /\ a.len >= 0 /\ a.off + a.len <= Len(a.data)

\* C15 as claimed: every write() on an open, healthy error-header or
\* handshake-header stream fails with the internal error, appends nothing
\* and reports no byte count
C15_WriteAlwaysInternalError ==
    [][((\E a \in WriteInputs : Write(a)) /\ ~DataBearing /\ OpenHealthy)
         => /\ last'.res = HeaderTypeError
            /\ currentPayload' = currentPayload]_vars

\* C15 amended: a write() on an open, healthy error-header or
\* handshake-header stream appends nothing and reports no byte count; it
\* fails with the internal error when the slice is within range and with the
\* range error otherwise
C15_WriteOnNonDataStream ==
    [][\A a \in WriteInputs :
          (Write(a) /\ ~DataBearing /\ OpenHealthy)
             => /\ last'.res = IF InRange(a) THEN HeaderTypeError
                                ELSE ErrorCb(BoundsError)
                /\ last'.res.k = "error"
                /\ currentPayload' = currentPayload
                /\ accepted' = accepted]_vars

C15_Witness ==
    /\ header.handshake /\ OpenHealthy /\ ready
    /\ last.op = "write" /\ last.rd /\ last.res = ErrorCb(HandshakeError)
    /\ currentPayload = EmptyPayload

\* C16: on an error-header or handshake-header stream no payload chunk is
\* ever created, written or cached and the sequence counter stays at 1; on
\* such a stream, not aborted and with a destination that never failed,
\* every flush() and close() reports success
C16_NoPayloadOnErrorOrHandshake ==
    ~DataBearing =>
        /\ ~ChunkInHand
        /\ payloadSequenceNumber = 1
        /\ currentPayload.segs = <<>>
        /\ (last.op \in {"flush", "close"} /\ ~aborted /\ ~sinkFault)
               => last.res = ResTrue

C16_Witness ==
    /\ ~HasMessageHeader(header) /\ closed /\ ncalls = 3
    /\ last.op = "close" /\ last.res = ResTrue /\ ~last.rd
    /\ written = <<>> /\ payloads = <<>> /\ sinkClosed = 0

\* C17: a flush() on an open, healthy, ready stream whose buffer holds zero
\* bytes completes at once with success, starts no chunk, and leaves the
\* destination, the cache, the buffer and the sequence counter as they are
C17_EmptyFlushNoOp ==
    [][(Flush /\ OpenHealthy /\ ready /\ Flatten(currentPayload.segs) = <<>>)
         => /\ op' = Idle
            /\ last'.op = "flush" /\ last'.res = ResTrue
            /\ UNCHANGED <<written, payloads, payloadSequenceNumber>>]_vars

\* no flag is set
Healthy == ~aborted /\ ~timedout /\ errored = NoError

\* C18: on a stream with no flag set, a close() invoked right after a close()
\* that reported success reports success again at once, writes nothing,
\* leaves the sequence counter, the cache and the buffer as they are and does
\* not close the destination again
C18_CloseIdempotent ==
    [][(Close /\ last.op = "close" /\ last.res = ResTrue /\ Healthy)
         => /\ op' = Idle
            /\ last'.op = "close" /\ last'.res = ResTrue
            /\ UNCHANGED <<written, payloads, payloadSequenceNumber, currentPayload,
                           sinkClosed, closed>>]_vars

C18_Witness ==
    /\ DataBearing /\ closeDestination /\ ~aborted /\ ~sinkFault /\ ncalls = 4
    /\ last.op = "close" /\ last.ph = "idle" /\ last.res = ResTrue
    /\ Len(written) = 1 /\ written[1].endofmsg /\ written[1].data # <<>>
    /\ sinkClosed = 1 /\ currentPayload = NullPayload

\* C19: the destination is closed only by a step of a close() that finds
\* closeDestination(true) in force; no other operation, and no close()
\* without the opt-in, invokes close on the destination
C19_NoCloseWithoutOptIn ==
    /\ [][sinkClosed' # sinkClosed
            => /\ closeDestination
               /\ op'.kind = "close" /\ op'.pc = "destClose"
               /\ sinkClosed' = sinkClosed + 1]_vars
    /\ [](op.pc = "destClose" => (op.kind = "close" /\ sinkClosed > 0))

C19_Witness ==
    /\ DataBearing /\ ~closeDestination /\ sinkClosed = 0 /\ Healthy
    /\ last.op = "close" /\ last.res = ResTrue /\ last.ph = "flush"
    /\ Len(written) = 2 /\ written[2].endofmsg

\* C20: on a data-bearing stream the destination is closed only in the step
\* in which the final flush of close() succeeds, the end-of-message chunk
\* written and flushed, and never after a final flush that was aborted,
\* timed out or failed
C20_CloseDestinationAfterEndOfMessage ==
    [][(DataBearing /\ sinkClosed' # sinkClosed)
         => /\ ~aborted'
            /\ op.kind = "close" /\ op.pc = "flush"
            /\ written # <<>> /\ written[Len(written)].endofmsg
            /\ payloadSequenceNumber' = payloadSequenceNumber + 1]_vars

\* the compression a chunk made from data under algorithm algo carries
Carries(chunk, algo) ==
    chunk.compressionAlgo = IF chunk.data = <<>> THEN NoAlgo ELSE algo

\* C21: a chunk in the making carries the algorithm in force, which is still
\* the old one during the flush of setCompressionAlgorithm(); the algorithm
\* changes only in the step in which that flush reports success, to the
\* algorithm asked for, which is null or negotiated; a chunk reaches the
\* destination with the algorithm in force at that moment
C21_SwitchAfterFlush ==
    /\ [](op.pc \in {"create", "write", "flush"}
            => Carries(op.chunk, compressionAlgo))
    /\ []((last.op = "setCompressionAlgorithm" /\ last.res = ResTrue)
            => compressionAlgo = last.algo)
    /\ [][compressionAlgo' # compressionAlgo
            => /\ op' = Idle
               /\ last'.op = "setCompressionAlgorithm" /\ last'.res = ResTrue
               /\ last'.cur = compressionAlgo
               /\ compressionAlgo' = last'.algo /\ Supported(last'.algo)
               /\ op.pc = "flush" => payloadSequenceNumber' = payloadSequenceNumber + 1]_vars
    /\ [][written' # written
            => /\ written' = Append(written, op.chunk)
               /\ Carries(op.chunk, compressionAlgo)]_vars

C21_Witness ==
    /\ last.op = "flush" /\ last.res = ResTrue /\ compressionAlgo = NoAlgo
    /\ Len(written) = 2
    /\ written[1].compressionAlgo = LZW /\ written[1].data # <<>>
    /\ written[2].compressionAlgo = NoAlgo /\ written[2].data # <<>>

\* what setCompressionAlgorithm() must leave alone when it changes nothing
SetCompressionChangesNothing ==
    /\ op' = Idle
    /\ UNCHANGED <<compressionAlgo, currentPayload, payloadSequenceNumber, written,
                   payloads, sinkClosed, sinkAborted, closed>>

\* C22: on a stream with a message header, setCompressionAlgorithm(a) with a
\* outside the negotiated capabilities returns false through the result
\* callback and with a the current algorithm returns true; in both cases the
\* algorithm, the buffer, the sequence counter, the cache and the destination
\* stay as they are
C22_UnsupportedOrSameAlgorithm ==
    [][\A a \in Algos :
          (/\ SetCompressionAlgorithm(a)
           /\ HasMessageHeader(header)
           /\ a = compressionAlgo \/ ~Supported(a))
             => /\ last'.op = "setCompressionAlgorithm" /\ last'.algo = a
                /\ last'.res = IF a = compressionAlgo THEN ResTrue ELSE ResFalse
                /\ SetCompressionChangesNothing]_vars

C22_Witness ==
    /\ last.op = "setCompressionAlgorithm" /\ last.algo = GZIP /\ last.cur = LZW
    /\ last.res = ResFalse /\ compressionAlgo = LZW
    /\ currentPayload.segs # <<>> /\ written = <<>> /\ payloadSequenceNumber = 1

\* C23: on an error-header stream setCompressionAlgorithm() fails with the
\* internal error for every argument, in every state of the stream, and
\* changes nothing
C23_SetCompressionOnErrorHeader ==
    [][\A a \in Algos :
          (SetCompressionAlgorithm(a) /\ ~HasMessageHeader(header))
             => /\ last'.op = "setCompressionAlgorithm" /\ last'.algo = a
                /\ last'.res = ErrorCb(ErrorMessageError)
                /\ SetCompressionChangesNothing
                /\ UNCHANGED <<readyQueue, aborted, timedout, errored, caching,
                               closeDestination>>]_vars

C23_Witness ==
    /\ ~HasMessageHeader(header) /\ compressionAlgo = NoAlgo
    /\ last.op = "setCompressionAlgorithm" /\ last.algo = NoAlgo
    /\ last.res = ErrorCb(ErrorMessageError)

\* the latest completed invocation is a setCompressionAlgorithm() that had to
\* flush: message header, algorithm different from the current one and null
\* or negotiated
ForcedFlush ==
    /\ last.op = "setCompressionAlgorithm" /\ HasMessageHeader(header)
    /\ last.algo # last.cur /\ Supported(last.algo)

\* C24: when the flush forced by setCompressionAlgorithm() times out, fails
\* or is aborted, the caller receives the timeout or an error, never a
\* result, and the algorithm is the one in force at the invocation
C24_FailedFlushKeepsAlgorithm ==
    /\ [](ForcedFlush =>
            /\ last.res.k \in {"true", "timeout", "error"}
            /\ last.res # ResTrue => compressionAlgo = last.cur
            /\ last.fl.ab => last.res.k \in {"timeout", "error"}
            /\ last.ph \in {"create", "write", "flush"}
                  => (last.res = ResTrue <=> (last.ph = "flush" /\ compressionAlgo = last.algo)))
    /\ [][(op.kind = "setCompressionAlgorithm" /\ op' = Idle /\ aborted')
            => /\ last'.res.k \in {"timeout", "error"}
               /\ compressionAlgo' = compressionAlgo]_vars

C24_Witness ==
    /\ ForcedFlush /\ last.ph = "write" /\ last.res = TimeoutCb
    /\ compressionAlgo = LZW /\ last.algo = NoAlgo
    /\ currentPayload.segs # <<>> /\ written = <<>>

\* C25: while caching is enabled and no operation is in flight, getPayloads()
\* is the list of the chunks the destination has been sent, in order
C25_PayloadsAreChunksSent ==
    (caching /\ op = Idle) => payloads = written

\* C26: once stopCaching() has been called getPayloads() is empty, whatever
\* is in flight and whatever follows
C26_NoPayloadsAfterStopCaching ==
    ~caching => payloads = <<>>

C26_Witness ==
    /\ ~caching /\ payloads = <<>>
    /\ Len(written) = 2 /\ written[2].endofmsg
    /\ last.op = "close" /\ last.res = ResTrue

(* ---------------- entity authentication data: properties --------------- *)
\* the instance was built with a certificate among its constructor arguments
BuiltFromCertificate(args) == Truthy(args.x509cert)

\* C27: an X509AuthenticationData constructed with a certificate has the
\* certificate's subject string as its identity, whatever identity argument
\* accompanied the certificate
C27_IdentityIsCertificateSubject ==
    (auth.cls \in {"X509", "X509Cert"} /\ auth.pc \notin {"none", "new"}) =>
        /\ BuiltFromCertificate(auth.args) =>
               auth.a.identity = getSubjectString(auth.args.x509cert)
        /\ BuiltFromCertificate(auth.args2) =>
               auth.b.identity = getSubjectString(auth.args2.x509cert)

\* a certificate of subject CN=2 was passed with the identity CN=1A
C27_Witness ==
    /\ auth.cls = "X509" /\ auth.pc = "constructed"
    /\ auth.args.identity = JsString("CN=1A")
    /\ auth.args.x509cert = Cert(3)
    /\ auth.a.identity = JsString("CN=2")
    /\ auth.a.x509cert = Cert(3)

\* the instance a is one of the forms that are put on the wire: an X509
\* instance holding a certificate or a chain, or a preshared keys instance
WireForm ==
    auth.cls = "X509" => (Truthy(auth.a.x509cert) \/ Truthy(auth.a.x509chain))

\* C28: parsing the serialization of an instance yields an instance that
\* equals() the original, and the parsed instance serializes to the same
\* authentication data
C28_RoundTrip ==
    (auth.pc = "compared" /\ WireForm /\ auth.jo = GetAuthData(auth.a)) =>
        /\ auth.parsed.k = "instance"
        /\ auth.eq.ap = "true"
        /\ auth.jo2 = auth.jo

\* C29: two X509 instances built from different certificate objects of the
\* same subject are equal
C29_EqualBySubject ==
    (/\ auth.pc = "compared" /\ auth.cls \in {"X509", "X509Cert"}
     /\ BuiltFromCertificate(auth.args) /\ BuiltFromCertificate(auth.args2)
     /\ ~StrictEquals(auth.args.x509cert, auth.args2.x509cert)
     /\ getSubjectString(auth.args.x509cert) = getSubjectString(auth.args2.x509cert))
    => auth.eq.ab = "true"

\* C30: equals() is reflexive and symmetric, false for two instances of one
\* scheme with different identities, and false, without an exception, for
\* null, for a string and for an instance of another class
C30_EqualsReflexiveSymmetric ==
    auth.pc = "compared" =>
        /\ auth.eq.aa = "true"
        /\ auth.eq.ab = auth.eq.ba
        /\ auth.parsed.k = "instance" => auth.eq.ap = auth.eq.pa
        /\ auth.eq.other = auth.eq.rehto
        /\ (auth.a.scheme = auth.b.scheme /\ auth.a.identity # auth.b.identity)
               => auth.eq.ab = "false"
        /\ auth.eq.null = "false"
        /\ auth.eq.string = "false"
        /\ auth.eq.other = "false"

\* two X509 instances in chain form with the identities CN=1A and CN=1B,
\* and the first one parsed back from its serialization
C30_Witness ==
    /\ auth.pc = "compared" /\ auth.cls = "X509"
    /\ auth.a.identity = JsString("CN=1A") /\ auth.b.identity = JsString("CN=1B")
    /\ auth.a.x509chain = JsString("chain") /\ auth.b.x509chain = JsString("chain")
    /\ auth.eq.aa = "true" /\ auth.eq.ab = "false" /\ auth.eq.ba = "false"
    /\ auth.eq.ap = "true" /\ auth.eq.pa = "true"
    /\ auth.eq.null = "false" /\ auth.eq.string = "false"

\* keys of the authentication data that reached the parser
HasKey(v) == v.t # "undefined"
ParseDone == auth.pc \in {"parsed", "reserialized", "compared"}

\* C31: a parse of authentication data without its mandatory keys throws
\* MslEncodingException(JSON_PARSE_ERROR) and returns no instance: preshared
\* keys data without identity, X509 data with neither x509certificate nor
\* x509chain; an x509certificate that is a text but no certificate throws
\* MslCryptoException(X509CERT_PARSE_ERROR)
C31_MissingFieldsRejected ==
    ParseDone =>
        /\ (auth.cls = "Preshared" /\ ~HasKey(auth.jo.identity))
               => auth.parsed = Thrown(JsonParseError)
        /\ (/\ auth.cls \in {"X509", "X509Cert"}
            /\ ~HasKey(auth.jo.x509certificate) /\ ~HasKey(auth.jo.x509chain))
               => auth.parsed = Thrown(JsonParseError)
        /\ (/\ auth.cls \in {"X509", "X509Cert"}
            /\ auth.jo.x509certificate = JsString("garbage"))
               => auth.parsed = Thrown(X509CertParseError)

\* the x509certificate key was deleted from the serialization of an
\* instance built from a certificate, and the parse threw
C31_Witness ==
    /\ auth.pc = "parsed" /\ auth.cls = "X509"
    /\ BuiltFromCertificate(auth.args)
    /\ auth.jo = JsonObject(JsUndefined, JsUndefined, JsString("CN=1"))
    /\ auth.parsed = Thrown(JsonParseError)

\* C32: a parse of X509 authentication data in chain form (x509chain and no
\* x509certificate) without the identity key throws
\* MslEncodingException(JSON_PARSE_ERROR) and returns no instance
C32_ChainWithoutIdentityRejected ==
    (/\ ParseDone /\ auth.cls = "X509"
     /\ ~HasKey(auth.jo.x509certificate) /\ HasKey(auth.jo.x509chain)
     /\ ~HasKey(auth.jo.identity))
    => auth.parsed = Thrown(JsonParseError)

(* ----------------------- flush pipeline: properties -------------------- *)
\* C33: when PayloadChunk$create fails, the operation ends in that step with
\* the error callback, and the destination, the cache, the buffer and the
\* sequence counter are as before
C33_ChunkCreationAllOrNothing ==
    [][(op.pc = "create" /\ op' # op /\ op'.pc # "write")
         => /\ op' = Idle
            /\ last'.op = op.kind /\ last'.ph = "create"
            /\ last'.res = ErrorCb(EncodingError)
            /\ UNCHANGED <<written, payloads, currentPayload, payloadSequenceNumber,
                           compressionAlgo, sinkClosed>>]_vars

\* a flush() of buffered bytes failed in PayloadChunk$create
C33_Witness ==
    /\ last.op = "flush" /\ last.ph = "create" /\ last.res = ErrorCb(EncodingError)
    /\ caching /\ payloads = <<>> /\ written = <<>>
    /\ currentPayload.segs # <<>> /\ payloadSequenceNumber = 1
    /\ ~aborted /\ ~sinkFault

\* C34: when the destination reports fewer bytes written than the serialized
\* payload chunk has, on a stream not aborted, the operation ends in that
\* step with the timeout callback, the destination is not flushed, and the
\* sequence counter and the buffer are as before
C34_ShortWriteTimesOut ==
    [][(SinkWriteAnswer("short") /\ ~aborted)
         => /\ op' = Idle
            /\ last'.op = op.kind /\ last'.res = TimeoutCb
            /\ UNCHANGED <<payloadSequenceNumber, currentPayload>>]_vars

\* the end-of-message chunk has been written to the destination and the
\* destination flush after it has succeeded
EndOfMessageEmitted ==
    /\ written # <<>>
    /\ written[Len(written)].endofmsg
    /\ payloadSequenceNumber > written[Len(written)].sequenceNumber

\* C35: on a data-bearing stream a close() that has reported success has
\* emitted the end-of-message chunk, also when it follows a close() that
\* timed out or failed
C35_CloseSuccessAfterEndOfMessage ==
    (DataBearing /\ last.op = "close" /\ last.res = ResTrue) => EndOfMessageEmitted

\* C36: when the destination flush of a payload chunk succeeds on a stream
\* not closed, the buffer keeps the bytes that write() accepted after the
\* chunk was made from the buffer: the buffer before the step is the data of
\* the chunk followed by the buffer after the step
C36_NoAcceptedByteLost ==
    [][(op.pc = "flush" /\ ~closed /\ payloadSequenceNumber' = payloadSequenceNumber + 1)
         => Flatten(currentPayload.segs)
              = op.chunk.data \o Flatten(currentPayload'.segs)]_vars

(* ------------------------ callbacks: properties ------------------------ *)
\* C37: an invocation in flight has invoked none of its callbacks, a
\* completed invocation exactly one; and when the destination answers every
\* call, an invocation in flight, also one waiting for readiness, completes
C37_ExactlyOneCallback ==
    /\ [](op # Idle => (op.inv.cbs = 0 /\ op.inv.res = Pending))
    /\ [](last.op # "none" => (last.cbs = 1 /\ last.res # Pending))
    /\ (op # Idle) ~> (op = Idle)

\* a close() that waited for readiness has received result(true) from the
\* close of the destination
C37_Witness ==
    /\ last.op = "close" /\ ~last.rd /\ last.ph = "destClose"
    /\ last.res = ResTrue /\ last.cbs = 1
    /\ op = Idle /\ EndOfMessageEmitted

\* C38: _ready is true exactly when the header transmission has ended, and
\* stays true; the step that sets it adds the one element of the readiness
\* queue, handed at once to an operation waiting for it, and no other step
\* adds an element; when the destination answers, the transmission ends
C38_ReadyExactlyOnce ==
    /\ [](ready <=> hdr = "done")
    /\ [](Len(readyQueue) <= 1 /\ (~ready => readyQueue = <<>>))
    /\ [][ready => ready']_vars
    /\ [][Len(readyQueue') > Len(readyQueue) => (~ready /\ ready')]_vars
    /\ [][(~ready /\ ready')
            => IF op.pc = "waitReady"
               THEN readyQueue' = readyQueue /\ op'.pc # "waitReady"
               ELSE readyQueue' = Append(readyQueue, TRUE)]_vars
    /\ (hdr \in {"write", "flush"}) ~> ready

\* the header write was answered after abort(): ready, the element queued,
\* no timeout and no error recorded
C38_Witness ==
    /\ aborted /\ ready /\ hdr = "done" /\ readyQueue = <<TRUE>>
    /\ ~timedout /\ errored = NoError /\ op = Idle

(* ---------------------- compression: properties ------------------------ *)
\* algo is null or in the intersection of the algorithms of the local entity
\* and of the message header the stream was constructed with
Negotiated(algo) ==
    \/ algo = NoAlgo
    \/ \E c \in Configs :
          /\ c.header = header
          /\ capabilities = MessageCapabilitiesIntersection(c.local, c.header.messageCapabilities)
          /\ ~capabilities.null
          /\ algo \in c.local.compressionAlgorithms \cap c.header.messageCapabilities.compressionAlgorithms

\* C39: the stream's compression algorithm, and the algorithm of every chunk
\* made, cached or written, is null or negotiated
C39_AlgorithmNegotiated ==
    /\ Negotiated(compressionAlgo)
    /\ op.pc \in {"create", "write", "flush"} => Negotiated(op.chunk.compressionAlgo)
    /\ \A i \in 1..Len(written) : Negotiated(written[i].compressionAlgo)
    /\ \A i \in 1..Len(payloads) : Negotiated(payloads[i].compressionAlgo)

\* the algorithm was switched from null back to LZW after a chunk was
\* written under LZW
C39_Witness ==
    /\ last.op = "setCompressionAlgorithm" /\ last.res = ResTrue
    /\ last.cur = NoAlgo /\ last.algo = LZW /\ compressionAlgo = LZW
    /\ Len(written) = 1 /\ written[1].compressionAlgo = LZW
    /\ capabilities = Caps({LZW})

(* --------------------- MockMslContext: properties ---------------------- *)
\* the factories of fs whose scheme is not the given one, in the order of fs
FactoriesOfOtherSchemes(fs, scheme) ==
    LET Other(f) == f.scheme # scheme IN SelectSeq(fs, Other)

\* the factory of the scheme that was added first among those in fs, or
\* undefined if fs has none of the scheme
EarliestAdded(fs, scheme) ==
    LET ofScheme == { i \in 1..Len(fs) : fs[i].scheme = scheme } IN
    IF ofScheme = {} THEN UndefinedFactory
    ELSE fs[CHOOSE i \in ofScheme : \A j \in ofScheme : fs[i].id <= fs[j].id]

\* C40: removeKeyExchangeFactories(scheme) leaves the factories of the other
\* schemes, all of them and in their order, and none of the scheme;
\* getKeyExchangeFactory of the removed scheme then returns undefined, and
\* getKeyExchangeFactory returns the earliest-added factory of its scheme
C40_RemoveKeyExchangeFactories ==
    /\ [](mock.call.op = "remove" =>
            mock.keyxFactories = FactoriesOfOtherSchemes(mock.call.before, mock.call.scheme))
    /\ [](mock.call.op = "get" =>
            mock.call.result = EarliestAdded(mock.keyxFactories, mock.call.scheme))
    /\ [][\A scheme \in KeyExchangeSchemes :
            (mock.call.op = "remove" /\ mock.call.scheme = scheme
                /\ GetKeyExchangeFactory(scheme))
            => mock'.call.result = UndefinedFactory]_vars

\* three adjacent Diffie-Hellman factories were removed at once
C40_Witness ==
    /\ mock.call.op = "remove" /\ mock.call.scheme = "DIFFIE_HELLMAN"
    /\ Len(mock.call.before) = 5
    /\ \A i \in 3..5 : mock.call.before[i].scheme = "DIFFIE_HELLMAN"
    /\ mock.keyxFactories = SubSeq(InitialKeyxFactories, 1, 2)
====
